---- MODULE Spec2Model ----
(***************************************************************************)
(* A model of via (src/via.go): the topic registry, the per-topic actor    *)
(* loop, the history store and the four HTTP handlers that drive them.     *)
(*                                                                         *)
(* Go's unbuffered channels are modelled as rendezvous: a send and the     *)
(* matching receive are one action that moves both goroutines.  A request  *)
(* goroutine is an entry of reqs, a topic actor (goroutine topic.run) an   *)
(* entry of actors; both sequences grow as the program creates them.       *)
(***************************************************************************)
EXTENDS Integers, Sequences, FiniteSets, TLC

\* ------------------------------------------------------------------ bounds
MaxRequests == 3        \* requests served in a run of Spec
MaxSerial == 4          \* requests served in a run of SpecSerial
MaxTopics == 3          \* requests served in a run of SpecTopics
MaxFair == 2            \* requests served in a run of SpecFair
MaxWriter == 2          \* requests served in a run of SpecWriter
MaxFaults == 3          \* requests served in a run of SpecFaults
MaxCursor == 1          \* largest Last-Event-ID value a client sends
maxHistorySize == 2     \* via.go keeps 100 entries; the model keeps fewer

\* ------------------------------------------------------------------ inputs
\* URL paths, as their segments: /hmsg/a keeps a history, /msg/a does not.
Keys == {<<"hmsg", "a">>, <<"msg", "a">>}

\* Request bodies.  The program never looks into a body, so the model gives
\* the n-th request a body of its own: every message can be told apart.
Payloads == <<"A", "B", "C", "D", "E", "F", "G", "H">>

Digits == <<"0", "1", "2", "3", "4", "5", "6", "7", "8", "9">>

\* The decimal text of a small number, as a client writes it in a header.
Itoa(n) == <<Digits[n + 1]>>

\* Values of the Last-Event-ID header: absent (empty) or a number.
HeaderValues == {<<>>} \cup {Itoa(n) : n \in 0..MaxCursor}

\* The same, and the negative numbers strconv.Atoi parses as well.
SignedHeaderValues == HeaderValues \cup {<<"-">> \o Itoa(n) : n \in 1..MaxCursor}

VARIABLES
    topics,   \* the registry: key -> index of its actor in actors
    actors,   \* every Topic ever constructed, with the position of its run loop
    reqs,     \* every request handler goroutine started so far
    disk      \* the storage directory: path -> file

vars == <<topics, actors, reqs, disk>>

\* ------------------------------------------------------------- pure helpers
Msg(id, data) == [Id |-> id, Data |-> data]

hasHistory(key) == key[1] = "hmsg"

\* base64.URLEncoding of the key joined to dir: injective in the key.
pathOf(key) == <<"dir", "b64">> \o key

Paths == {pathOf(k) : k \in Keys}

NoFile == [exists |-> FALSE, content |-> <<>>]

DigitVal(c) == (CHOOSE i \in 1..10 : Digits[i] = c) - 1

RECURSIVE ParseDigits(_, _)
ParseDigits(s, acc) ==
    IF s = <<>> THEN acc
    ELSE ParseDigits(Tail(s), acc * 10 + DigitVal(Head(s)))

\* strconv.Atoi: an optional sign, then digits; anything else is an error.
Atoi(s) ==
    LET signed == s # <<>> /\ Head(s) \in {"+", "-"}
        digits == IF signed THEN Tail(s) ELSE s
    IN IF digits = <<>> \/ \E i \in 1..Len(digits) : \A d \in 1..10 : Digits[d] # digits[i]
       THEN [val |-> 0, err |-> TRUE]
       ELSE [val |-> IF Head(s) = "-" THEN 0 - ParseDigits(digits, 0)
                     ELSE ParseDigits(digits, 0),
             err |-> FALSE]

\* json.Marshal of []Msg: one object per message, Data as base64 text.
jsonMarshal(history) ==
    [i \in 1..Len(history) |-> <<"Id", history[i].Id, "Data", <<"b64", history[i].Data>>>>]

\* json.Unmarshal into []Msg.
jsonUnmarshal(content) ==
    [i \in 1..Len(content) |-> Msg(content[i][2], content[i][4][2])]

\* Evict with the bound tested one entry early.
EvictAtLimit(history) ==
    IF Len(history) >= maxHistorySize THEN Tail(history) ELSE history

RECURSIVE Evict(_)
Evict(history) ==
    IF Len(history) > maxHistorySize THEN Evict(Tail(history)) ELSE history

\* Newer keeping the entry at id as well.
NewerOrEqual(history, id) == SelectSeq(history, LAMBDA m : m.Id >= id)

\* The survivors of a compaction at id: the entries with a larger id.
Newer(history, id) == SelectSeq(history, LAMBDA m : m.Id > id)

\* NextReplay with the range of the loop restarted at every send.
NextReplayRestarts(history, from, lastId) ==
    IF \E i \in 1..Len(history) : history[i].Id > lastId
    THEN CHOOSE i \in 1..Len(history) :
            /\ history[i].Id > lastId
            /\ \A j \in 1..(i - 1) : history[j].Id <= lastId
    ELSE 0

\* First index >= from of a history entry with Id > lastId, or 0.
NextReplay(history, from, lastId) ==
    IF \E i \in from..Len(history) : history[i].Id > lastId
    THEN CHOOSE i \in from..Len(history) :
            /\ history[i].Id > lastId
            /\ \A j \in from..(i - 1) : history[j].Id <= lastId
    ELSE 0

NoSub == [ch |-> 0, lastId |-> 0]
NoMsg == Msg(0, "")

\* &Topic{...} as getTopic builds it; pc is the position of go topic.run(key).
NewTopic(key) ==
    [ key        |-> key,
      channels   |-> {},
      hasHistory |-> hasHistory(key),
      history    |-> <<>>,
      path       |-> pathOf(key),
      lastId     |-> 0,
      pc         |-> "start",
      sub        |-> NoSub,      \* the Sub being replayed (run's local sub)
      idx        |-> 0,          \* position of the replay loop
      msg        |-> NoMsg,      \* the message being fanned out (run's local msg)
      pending    |-> {},         \* channels the fan-out loop has not reached
      cmd        |-> "" ]        \* the case of the select the loop is in

\* ----------------------------------------------------------------- store
\* storeHistory marshalling the history without its newest entry.
storeHistoryDropsLast(topic, ok) ==
    IF ok
    THEN [disk EXCEPT ![topic.path] =
              [exists |-> TRUE,
               content |-> jsonMarshal(SubSeq(topic.history, 1, Len(topic.history) - 1))]]
    ELSE disk

\* topic.storeHistory: the file is replaced unless the write fails.
storeHistory(topic, ok) ==
    IF ok
    THEN [disk EXCEPT ![topic.path] =
              [exists |-> TRUE, content |-> jsonMarshal(topic.history)]]
    ELSE disk

\* restoreHistory without lines 93-95: lastId stays as constructed.
restoreHistoryOnly(topic, ok) ==
    IF ~ok \/ ~disk[topic.path].exists
    THEN topic
    ELSE [topic EXCEPT !.history = jsonUnmarshal(disk[topic.path].content)]

\* topic.restoreHistory: history and lastId as loaded; a missing file or a
\* read error leaves the fresh topic as constructed.
restoreHistory(topic, ok) ==
    IF ~ok \/ ~disk[topic.path].exists
    THEN topic
    ELSE LET history == jsonUnmarshal(disk[topic.path].content)
         IN [topic EXCEPT !.history = history,
                          !.lastId = IF Len(history) > 0
                                     THEN history[Len(history)].Id
                                     ELSE topic.lastId]

\* topic.deleteHistory: the file is removed unless the removal fails.
deleteHistory(topic, ok) ==
    IF ok THEN [disk EXCEPT ![topic.path] = NoFile] ELSE disk

\* --------------------------------------------------------------- registry
\* The *Topic getTopic returns for key.
TopicFor(key) ==
    IF key \in DOMAIN topics THEN topics[key] ELSE Len(actors) + 1

\* getTopic, under mux: look up, or construct, register and start.
getTopic(key) ==
    IF key \in DOMAIN topics
    THEN UNCHANGED <<topics, actors>>
    ELSE /\ topics' = topics @@ (key :> Len(actors) + 1)
         /\ actors' = Append(actors, NewTopic(key))

NoResp == [ok |-> FALSE, remaining |-> 0]

NewReq(kind, key, lastId, body, topic) ==
    [ kind   |-> kind,
      key    |-> key,
      lastId |-> lastId,
      body   |-> body,
      topic  |-> topic,          \* the *Topic held, 0 if none
      pc     |-> "send",
      unsub  |-> "no",           \* the goroutine sending on unsubChan
      closes |-> 0,              \* times close(ch) ran on the handler's ch
      got    |-> <<>>,           \* what the handler received on ch
      resp   |-> NoResp ]        \* post: what <-ch gave (remaining, ok)

\* A handler that has returned: its locals are gone, its response is out.
Returned(r, pc) == [NewReq(r.kind, r.key, 0, "", 0) EXCEPT !.pc = pc, !.resp = r.resp]

\* ------------------------------------------------------ handlers: arrival
\* get, up to and including getTopic.  Of the rest of get the model keeps the
\* channel operations; the ticker case writes a ping and changes nothing.  The
\* response writer of net/http is an http.Flusher, so under main the return at
\* line 231 is not taken: only SpecWriter, where get is given any
\* http.ResponseWriter, has the step SubscribeNoFlusher.
get(key, header) ==
    LET parsed == Atoi(header)
        lastId == IF parsed.err THEN 0 ELSE parsed.val
    IN /\ getTopic(key)
       /\ reqs' = Append(reqs, NewReq("get", key, lastId, "", TopicFor(key)))
       /\ UNCHANGED disk

\* post, up to and including getTopic.
post(key, body) ==
    /\ getTopic(key)
    /\ reqs' = Append(reqs, NewReq("post", key, 0, body, TopicFor(key)))
    /\ UNCHANGED disk

\* put reading a Last-Event-ID it cannot parse as 0, the way get does.
putLenient(key, header, body) ==
    LET parsed == Atoi(header)
    IN IF ~hasHistory(key)
       THEN /\ reqs' = Append(reqs, Returned(NewReq("put", key, 0, "", 0), "rejected"))
            /\ UNCHANGED <<topics, actors, disk>>
       ELSE /\ getTopic(key)
            /\ reqs' = Append(reqs, NewReq("put", key, parsed.val, body, TopicFor(key)))
            /\ UNCHANGED disk

\* put, up to and including getTopic, or its 400 responses.
put(key, header, body) ==
    LET parsed == Atoi(header)
    IN IF ~hasHistory(key) \/ parsed.err
       THEN /\ reqs' = Append(reqs, Returned(NewReq("put", key, 0, "", 0), "rejected"))
            /\ UNCHANGED <<topics, actors, disk>>
       ELSE /\ getTopic(key)
            /\ reqs' = Append(reqs, NewReq("put", key, parsed.val, body, TopicFor(key)))
            /\ UNCHANGED disk

\* del, up to and including getTopic, or its 400 response.
del(key) ==
    IF ~hasHistory(key)
    THEN /\ reqs' = Append(reqs, Returned(NewReq("del", key, 0, "", 0), "rejected"))
         /\ UNCHANGED <<topics, actors, disk>>
    ELSE /\ getTopic(key)
         /\ reqs' = Append(reqs, NewReq("del", key, 0, "", TopicFor(key)))
         /\ UNCHANGED disk

\* ------------------------------------------------------------- actor loop
\* Run without the call of restoreHistory.
RunWithoutRestore(a, ok) ==
    /\ actors[a].pc = "start"
    /\ actors' = [actors EXCEPT ![a].pc = "select"]
    /\ UNCHANGED <<topics, reqs, disk>>

\* topic.run before the loop: load the history of a history topic.
Run(a, ok) ==
    /\ actors[a].pc = "start"
    /\ actors' = [actors EXCEPT ![a] =
            [(IF actors[a].hasHistory THEN restoreHistory(actors[a], ok) ELSE actors[a])
                EXCEPT !.pc = "select"]]
    /\ UNCHANGED <<topics, reqs, disk>>

\* r's handler is blocked sending its command to an actor that is selecting.
CanSend(r, kind) ==
    /\ reqs[r].kind = kind
    /\ reqs[r].pc = "send"
    /\ actors[reqs[r].topic].pc = "select"

\* case sub := <-topic.subChan, met by get's topic.subChan <- Sub{ch, lastId}.
Subscribe(r) ==
    LET a == reqs[r].topic
    IN /\ CanSend(r, "get")
       /\ actors' = [actors EXCEPT ![a].pc = "replay",
                                   ![a].cmd = "sub",
                                   ![a].sub = [ch |-> r, lastId |-> reqs[r].lastId],
                                   ![a].idx = 1]
       /\ reqs' = [reqs EXCEPT ![r].pc = "stream"]
       /\ UNCHANGED <<topics, disk>>

\* The same rendezvous when w is not an http.Flusher: get answers 500 and
\* returns at line 231, its Sub already handed to the actor.
SubscribeNoFlusher(r) ==
    LET a == reqs[r].topic
    IN /\ CanSend(r, "get")
       /\ actors' = [actors EXCEPT ![a].pc = "replay",
                                   ![a].cmd = "sub",
                                   ![a].sub = [ch |-> r, lastId |-> reqs[r].lastId],
                                   ![a].idx = 1]
       /\ reqs' = [reqs EXCEPT ![r] = Returned(reqs[r], "done")]
       /\ UNCHANGED <<topics, disk>>

\* r's handler is receiving from its ch: in the select loop or draining.
Receiving(r) == reqs[r].pc \in {"stream", "drain"}

\* One sub.ch <- msg of the replay loop, met by the handler's receive.
Replay(a) ==
    LET t == actors[a]
        i == NextReplay(t.history, t.idx, t.sub.lastId)
        r == t.sub.ch
    IN /\ t.pc = "replay"
       /\ i # 0
       /\ Receiving(r)
       /\ actors' = [actors EXCEPT ![a].idx = i + 1]
       /\ reqs' = [reqs EXCEPT ![r].got = Append(@,
              [Id |-> t.history[i].Id, Data |-> t.history[i].Data,
               live |-> FALSE])]
       /\ UNCHANGED <<topics, disk>>

\* The replay loop is over: topic.channels[sub.ch] = true.
Admit(a) ==
    LET t == actors[a]
    IN /\ t.pc = "replay"
       /\ NextReplay(t.history, t.idx, t.sub.lastId) = 0
       /\ actors' = [actors EXCEPT ![a].channels = @ \cup {t.sub.ch},
                                   ![a].idx = Len(t.history) + 1,
                                   ![a].pc = "cleanup"]
       /\ UNCHANGED <<topics, reqs, disk>>

\* Cancel returning at once, without the loop that drains ch.
CancelWithoutDrain(r) ==
    /\ reqs[r].kind = "get"
    /\ reqs[r].pc = "stream"
    /\ reqs' = [reqs EXCEPT ![r].pc = "done", ![r].unsub = "pending"]
    /\ UNCHANGED <<topics, actors, disk>>

\* case <-ctx.Done() in get: start the unsubscribing goroutine, then drain.
Cancel(r) ==
    /\ reqs[r].kind = "get"
    /\ reqs[r].pc = "stream"
    /\ reqs' = [reqs EXCEPT ![r].pc = "drain", ![r].unsub = "pending"]
    /\ UNCHANGED <<topics, actors, disk>>

\* Unsubscribe by a goroutine that stays ready to send ch once more.
UnsubscribeResends(r) ==
    LET a == reqs[r].topic
    IN /\ reqs[r].unsub = "pending"
       /\ actors[a].pc = "select"
       /\ reqs' = [reqs EXCEPT ![r].closes = @ + 1]
       /\ actors' = [actors EXCEPT ![a].channels = @ \ {r},
                                   ![a].cmd = "unsub",
                                   ![a].pc = "cleanup"]
       /\ UNCHANGED <<topics, disk>>

\* case ch := <-topic.unsubChan, met by topic.unsubChan <- ch.
Unsubscribe(r) ==
    LET a == reqs[r].topic
    IN /\ reqs[r].unsub = "pending"
       /\ actors[a].pc = "select"
       /\ reqs' = [reqs EXCEPT ![r].unsub = "sent", ![r].closes = @ + 1]
       /\ actors' = [actors EXCEPT ![a].channels = @ \ {r},
                                   ![a].cmd = "unsub",
                                   ![a].pc = "cleanup"]
       /\ UNCHANGED <<topics, disk>>

\* for _ = range ch ends when ch is closed: get returns.
Drained(r) ==
    /\ reqs[r].pc = "drain"
    /\ reqs[r].closes > 0
    /\ reqs' = [reqs EXCEPT ![r] = Returned(reqs[r], "done")]
    /\ UNCHANGED <<topics, actors, disk>>

\* The topic after lines 138-145 of the postChan case.
Published(t, data) ==
    LET id == t.lastId + 1
    IN [t EXCEPT !.lastId = id,
                 !.msg = Msg(id, data),
                 !.history = IF t.hasHistory
                             THEN Evict(Append(t.history, Msg(id, data)))
                             ELSE t.history]

\* Publish giving up after a failed save: no answer, no fan-out.
PublishAbortsOnError(r, ok) ==
    LET a == reqs[r].topic
        t == Published(actors[a], reqs[r].body)
    IN /\ CanSend(r, "post")
       /\ disk' = IF t.hasHistory THEN storeHistory(t, ok) ELSE disk
       /\ reqs' = [reqs EXCEPT ![r] = Returned(
              [reqs[r] EXCEPT !.resp =
                  IF t.hasHistory /\ ok
                  THEN [ok |-> TRUE, remaining |-> maxHistorySize - Len(t.history)]
                  ELSE NoResp], "done")]
       /\ actors' = [actors EXCEPT ![a] =
              [t EXCEPT !.pending = IF ok THEN t.channels ELSE {},
                        !.cmd = "post",
                        !.pc = IF t.channels = {} \/ ~ok THEN "cleanup" ELSE "fanout"]]
       /\ UNCHANGED topics

\* case post := <-topic.postChan up to close(post.ch), met by post's send and
\* its receive of the remaining capacity.
Publish(r, ok) ==
    LET a == reqs[r].topic
        t == Published(actors[a], reqs[r].body)
    IN /\ CanSend(r, "post")
       /\ disk' = IF t.hasHistory THEN storeHistory(t, ok) ELSE disk
       /\ reqs' = [reqs EXCEPT ![r] = Returned(
              [reqs[r] EXCEPT !.resp =
                  IF t.hasHistory
                  THEN [ok |-> TRUE, remaining |-> maxHistorySize - Len(t.history)]
                  ELSE NoResp], "done")]
       /\ actors' = [actors EXCEPT ![a] =
              [t EXCEPT !.pending = t.channels,
                        !.cmd = "post",
                        !.pc = IF t.channels = {} THEN "cleanup" ELSE "fanout"]]
       /\ UNCHANGED topics

\* FanOut with a break after the first send.
FanOutBreaks(a, ch) ==
    LET t == actors[a]
    IN /\ t.pc = "fanout"
       /\ ch \in t.pending
       /\ Receiving(ch)
       /\ reqs' = [reqs EXCEPT ![ch].got = Append(@,
              [Id |-> t.msg.Id, Data |-> t.msg.Data, live |-> TRUE])]
       /\ actors' = [actors EXCEPT ![a].pending = {}, ![a].pc = "cleanup"]
       /\ UNCHANGED <<topics, disk>>

\* One ch <- msg of the fan-out loop, met by the handler's receive.
FanOut(a, ch) ==
    LET t == actors[a]
    IN /\ t.pc = "fanout"
       /\ ch \in t.pending
       /\ Receiving(ch)
       /\ reqs' = [reqs EXCEPT ![ch].got = Append(@,
              [Id |-> t.msg.Id, Data |-> t.msg.Data, live |-> TRUE])]
       /\ actors' = [actors EXCEPT ![a].pending = @ \ {ch},
                                   ![a].pc = IF t.pending = {ch} THEN "cleanup" ELSE "fanout"]
       /\ UNCHANGED <<topics, disk>>

\* Stale with the emptiness test off by one.
StaleIfLong(t, msg) == Len(t.history) > 1 /\ msg.Id < t.history[1].Id

\* The putChan case refuses msg: it is older than the oldest entry.
Stale(t, msg) == Len(t.history) > 0 /\ msg.Id < t.history[1].Id

\* Compacted without the test m.Id > msg.Id: every former entry is kept.
CompactedKeepsOlder(t, msg) ==
    [t EXCEPT !.history = <<msg>> \o t.history,
              !.lastId = IF msg.Id > t.lastId THEN msg.Id ELSE t.lastId]

\* The topic after lines 161-173 of the putChan case.
Compacted(t, msg) ==
    [t EXCEPT !.history = <<msg>> \o Newer(t.history, msg.Id),
              !.lastId = IF msg.Id > t.lastId THEN msg.Id ELSE t.lastId]

\* Compact sending its message to the live handles as Publish does.
CompactFansOut(r, ok) ==
    LET a == reqs[r].topic
        msg == Msg(reqs[r].lastId, reqs[r].body)
        t == Compacted(actors[a], msg)
    IN /\ CanSend(r, "put")
       /\ reqs' = [reqs EXCEPT ![r] = Returned(reqs[r], "done")]
       /\ IF Stale(actors[a], msg)
          THEN UNCHANGED <<actors, disk>>
          ELSE /\ actors' = [actors EXCEPT ![a] =
                      [t EXCEPT !.msg = msg,
                                !.pending = t.channels,
                                !.cmd = "post",
                                !.pc = IF t.channels = {} THEN "cleanup" ELSE "fanout"]]
               /\ disk' = storeHistory(t, ok)
       /\ UNCHANGED topics

\* Compact without the call of storeHistory.
CompactWithoutSave(r, ok) ==
    LET a == reqs[r].topic
        msg == Msg(reqs[r].lastId, reqs[r].body)
        t == Compacted(actors[a], msg)
    IN /\ CanSend(r, "put")
       /\ reqs' = [reqs EXCEPT ![r] = Returned(reqs[r], "done")]
       /\ IF Stale(actors[a], msg)
          THEN UNCHANGED actors
          ELSE actors' = [actors EXCEPT ![a] = [t EXCEPT !.cmd = "put", !.pc = "cleanup"]]
       /\ UNCHANGED <<topics, disk>>

\* case msg := <-topic.putChan, met by put's topic.putChan <- Msg{lastId, body}.
Compact(r, ok) ==
    LET a == reqs[r].topic
        msg == Msg(reqs[r].lastId, reqs[r].body)
        t == Compacted(actors[a], msg)
    IN /\ CanSend(r, "put")
       /\ reqs' = [reqs EXCEPT ![r] = Returned(reqs[r], "done")]
       /\ IF Stale(actors[a], msg)
          THEN UNCHANGED <<actors, disk>>       \* continue: back to select
          ELSE /\ actors' = [actors EXCEPT ![a] = [t EXCEPT !.cmd = "put", !.pc = "cleanup"]]
               /\ disk' = storeHistory(t, ok)
       /\ UNCHANGED topics

\* ClearHistory without line 176: lastId is kept.
ClearHistoryKeepsLastId(r, ok) ==
    LET a == reqs[r].topic
    IN /\ CanSend(r, "del")
       /\ reqs' = [reqs EXCEPT ![r] = Returned(reqs[r], "done")]
       /\ actors' = [actors EXCEPT ![a].history = <<>>,
                                   ![a].cmd = "del",
                                   ![a].pc = "cleanup"]
       /\ disk' = deleteHistory(actors[a], ok)
       /\ UNCHANGED topics

\* case _ = <-topic.delChan, met by del's topic.delChan <- struct{}{}.
ClearHistory(r, ok) ==
    LET a == reqs[r].topic
    IN /\ CanSend(r, "del")
       /\ reqs' = [reqs EXCEPT ![r] = Returned(reqs[r], "done")]
       /\ actors' = [actors EXCEPT ![a].history = <<>>,
                                   ![a].lastId = 0,
                                   ![a].cmd = "del",
                                   ![a].pc = "cleanup"]
       /\ disk' = deleteHistory(actors[a], ok)
       /\ UNCHANGED topics

\* Back at the select: the locals of the last iteration are gone.
NextCommand(t) ==
    [t EXCEPT !.pc = "select", !.cmd = "", !.sub = NoSub, !.idx = 0,
              !.msg = NoMsg, !.pending = {}]

\* run has returned: nothing refers to the Topic's fields any more.
Exited(t) == [NewTopic(t.key) EXCEPT !.pc = "exited"]

\* cleanup without the break: the entry is deleted and the loop goes on.
cleanupWithoutBreak(a) ==
    LET t == actors[a]
    IN /\ t.pc = "cleanup"
       /\ actors' = [actors EXCEPT ![a] = NextCommand(t)]
       /\ IF Cardinality(t.channels) > 0
          THEN UNCHANGED topics
          ELSE topics' = [k \in DOMAIN topics \ {t.key} |-> topics[k]]
       /\ UNCHANGED <<reqs, disk>>

\* topic.cleanup(key) and the break that follows it.
cleanup(a) ==
    LET t == actors[a]
    IN /\ t.pc = "cleanup"
       /\ IF Cardinality(t.channels) > 0
          THEN /\ actors' = [actors EXCEPT ![a] = NextCommand(t)]
               /\ UNCHANGED topics
          ELSE /\ actors' = [actors EXCEPT ![a] = Exited(t)]
               /\ topics' = [k \in DOMAIN topics \ {t.key} |-> topics[k]]
       /\ UNCHANGED <<reqs, disk>>

\* ------------------------------------------------------------ specification
Init ==
    /\ topics = <<>>
    /\ actors = <<>>
    /\ reqs = <<>>
    /\ disk = [p \in Paths |-> NoFile]

\* A request arrives and its handler runs up to its first channel operation.
Arrive(keys, postKeys, headers) ==
    \/ \E key \in keys, header \in headers : get(key, header)
    \/ \E key \in postKeys : post(key, Payloads[Len(reqs) + 1])
    \/ \E key \in keys, header \in headers :
            put(key, header, Payloads[Len(reqs) + 1])
    \/ \E key \in keys : del(key)

\* The steps of the goroutines already running; oks are the outcomes the
\* operations on the storage directory can have.
Step(oks) ==
    \/ \E a \in DOMAIN actors, ok \in oks : Run(a, ok)
    \/ \E r \in DOMAIN reqs : Subscribe(r)
    \/ \E a \in DOMAIN actors : Replay(a)
    \/ \E a \in DOMAIN actors : Admit(a)
    \/ \E r \in DOMAIN reqs : Unsubscribe(r)
    \/ \E r \in DOMAIN reqs : Drained(r)
    \/ \E r \in DOMAIN reqs, ok \in oks : Publish(r, ok)
    \/ \E a \in DOMAIN actors, ch \in DOMAIN reqs : FanOut(a, ch)
    \/ \E r \in DOMAIN reqs, ok \in oks : Compact(r, ok)
    \/ \E r \in DOMAIN reqs, ok \in oks : ClearHistory(r, ok)
    \/ \E a \in DOMAIN actors : cleanup(a)

\* Nothing is running: every handler has returned or is streaming, every
\* actor is waiting in its select or has returned.
Quiet ==
    /\ \A r \in DOMAIN reqs : reqs[r].pc \in {"stream", "done", "rejected"}
    /\ \A a \in DOMAIN actors : actors[a].pc \in {"select", "exited"}

\* The world outside: a request arrives, or a streaming client goes away.
Client(limit, keys, postKeys, headers) ==
    \/ Len(reqs) < limit /\ Arrive(keys, postKeys, headers)
    \/ \E r \in DOMAIN reqs : Cancel(r)

HistoryKeys == {k \in Keys : hasHistory(k)}

\* All interleavings of up to MaxRequests requests on the history topic.
Next ==
    \/ Client(MaxRequests, HistoryKeys, HistoryKeys, HeaderValues)
    \/ Step({TRUE})

Spec == Init /\ [][Next]_vars

\* Requests one after the other, the next event waiting for the last to
\* settle: any request on the history topic, publishes on the plain one too.
NextSerial ==
    \/ Quiet /\ Client(MaxSerial, HistoryKeys, Keys, HeaderValues)
    \/ Step({TRUE})

SpecSerial == Init /\ [][NextSerial]_vars

\* Requests one after the other, any request on either topic, with any
\* Last-Event-ID the handlers parse.
NextTopics ==
    \/ Quiet /\ Client(MaxTopics, Keys, Keys, SignedHeaderValues)
    \/ Step({TRUE})

SpecTopics == Init /\ [][NextTopics]_vars

\* All interleavings of up to MaxFair requests on the history topic, every
\* goroutine that can take a step being scheduled in the end.  A client is
\* free never to send, and never to go away.
NextFair ==
    \/ Client(MaxFair, HistoryKeys, HistoryKeys, HeaderValues)
    \/ Step({TRUE})

SpecFair == Init /\ [][NextFair]_vars /\ WF_vars(Step({TRUE}))

\* Requests one after the other on the history topic, get being called with
\* any http.ResponseWriter, a Flusher or not.
NextWriter ==
    \/ Quiet /\ Client(MaxWriter, HistoryKeys, HistoryKeys, HeaderValues)
    \/ Step({TRUE})
    \/ \E r \in DOMAIN reqs : SubscribeNoFlusher(r)

SpecWriter == Init /\ [][NextWriter]_vars

\* Requests one after the other on the history topic, every read, write and
\* removal of the file free to fail.
NextFaults ==
    \/ Quiet /\ Client(MaxFaults, HistoryKeys, HistoryKeys, HeaderValues)
    \/ Step(BOOLEAN)

SpecFaults == Init /\ [][NextFaults]_vars

\* ------------------------------------------------------------- properties
\* The messages handler r has received on its ch, in order.
Delivered(r) ==
    [i \in 1..Len(reqs[r].got) |-> Msg(reqs[r].got[i].Id, reqs[r].got[i].Data)]

\* How many times the fan-out loop has delivered m to handler r.
LiveCount(r, m) ==
    Cardinality({i \in 1..Len(reqs[r].got) :
        reqs[r].got[i].live /\ Delivered(r)[i] = m})

IsAscending(ms) == \A i, j \in 1..Len(ms) : i < j => ms[i].Id < ms[j].Id

\* The actor has just finished the subChan case / the postChan case.
ReplayDone(a) == actors[a].pc = "cleanup" /\ actors[a].cmd = "sub"
FanOutDone(a) == actors[a].pc = "cleanup" /\ actors[a].cmd = "post"

\* C1: a goroutine that holds a *Topic from getTopic is never blocked sending
\* a command (subChan, postChan, putChan, delChan, unsubChan) to an actor
\* whose loop has deregistered itself and returned.
C1_NoSendToExitedActor ==
    \A r \in DOMAIN reqs :
        (reqs[r].pc = "send" \/ reqs[r].unsub = "pending")
            => actors[reqs[r].topic].pc # "exited"

\* C2: on a history topic a Subscribe delivers to the new handle exactly the
\* retained messages with id > cursor, in ascending order, and with cursor 0
\* it delivers the whole retained history.
C2_ReplayIsHistoryAfterCursor ==
    \A a \in DOMAIN actors :
        ReplayDone(a) /\ actors[a].hasHistory =>
            LET r == actors[a].sub.ch
                cursor == reqs[r].lastId
            IN /\ Delivered(r) = SelectSeq(actors[a].history, LAMBDA m : m.Id > cursor)
               /\ IsAscending(Delivered(r))
               /\ \A i \in 1..Len(reqs[r].got) : ~reqs[r].got[i].live
               /\ cursor = 0 => Delivered(r) = actors[a].history

\* C3: every handle receives its replayed messages before any fanned-out
\* message, and receives no message twice.
C3_ReplayBeforeLiveNoRepeat ==
    \A r \in DOMAIN reqs :
        \A i, j \in 1..Len(reqs[r].got) :
            i < j => /\ ~(reqs[r].got[i].live /\ ~reqs[r].got[j].live)
                     /\ Delivered(r)[i] # Delivered(r)[j]

\* A handle has received a replayed message and then a fanned-out one.
C3_Witness ==
    \E r \in DOMAIN reqs :
        /\ Len(reqs[r].got) >= 2
        /\ ~reqs[r].got[1].live
        /\ reqs[r].got[Len(reqs[r].got)].live

\* When the fan-out loop of a Publish is over, every handle of the live set
\* has received the message exactly once.
C4_OncePerLiveHandle ==
    \A a \in DOMAIN actors :
        FanOutDone(a) =>
            \A ch \in actors[a].channels : LiveCount(ch, actors[a].msg) = 1

\* A step that delivers a fanned-out message delivers the message of the
\* Publish being applied, for the first time, to a handle of the live set.
C4_DeliveryStep ==
    \A r \in DOMAIN reqs :
        LET g == reqs[r].got
            h == reqs'[r].got
            a == reqs[r].topic
        IN Len(h) > Len(g) /\ h[Len(h)].live =>
              /\ actors[a].cmd = "post"
              /\ r \in actors[a].channels
              /\ Msg(h[Len(h)].Id, h[Len(h)].Data) = actors[a].msg
              /\ LiveCount(r, actors[a].msg) = 0

\* The live set is the same from the moment a Publish is applied to the end
\* of its fan-out loop.
C4_LiveSetFixed ==
    \A a \in DOMAIN actors :
        actors[a].pc = "fanout" => actors'[a].channels = actors[a].channels

\* C4: a Publish is delivered exactly once to every handle that is in the
\* live set when it is applied, and by fan-out to no other handle.
C4_FanOutToLiveSetOnce ==
    /\ []C4_OncePerLiveHandle
    /\ [][C4_DeliveryStep /\ C4_LiveSetFixed]_vars

\* A Publish has been fanned out to two live handles.
C4_Witness ==
    \E a \in DOMAIN actors :
        FanOutDone(a) /\ Cardinality(actors[a].channels) = 2

\* The history topic of the scenarios.
H == <<"hmsg", "a">>

\* The messages in the file of key, none if there is no file.
Stored(key) == jsonUnmarshal(disk[pathOf(key)].content)

\* The actors of key whose Topic fields are in use: loaded and not returned.
Live(key) ==
    {a \in DOMAIN actors :
        actors[a].key = key /\ actors[a].pc \in {"select", "replay", "fanout", "cleanup"}}

\* Every actor of key in use holds history, and so does the file if any.
HistoryIs(key, history) ==
    /\ \A a \in Live(key) : actors[a].history = history
    /\ Stored(key) = history

\* Request n was a Publish / a ClearHistory / a Subscribe on H, n-th to arrive.
Posted(n) ==
    n \in DOMAIN reqs /\ reqs[n].kind = "post" /\ reqs[n].key = H /\ reqs[n].pc = "done"
Cleared(n) ==
    n \in DOMAIN reqs /\ reqs[n].kind = "del" /\ reqs[n].key = H /\ reqs[n].pc = "done"
Subscribed(n) ==
    n \in DOMAIN reqs /\ reqs[n].kind = "get" /\ reqs[n].key = H /\ reqs[n].pc # "send"

\* r's handler hands its command to the actor in this step.
Accepted(r, kind) ==
    reqs[r].kind = kind /\ reqs[r].pc = "send" /\ reqs'[r].pc # "send"

\* The last min(Len, n) entries of history.
LastN(history, n) ==
    SubSeq(history, IF Len(history) > n THEN Len(history) - n + 1 ELSE 1, Len(history))

\* A Publish appends the message lastId + 1, keeps the newest maxHistorySize
\* entries and answers with the room left; on a plain topic it answers
\* with no number.
C5_PublishStep ==
    \A r \in DOMAIN reqs :
        Accepted(r, "post") =>
            LET old == actors[reqs[r].topic]
                new == actors'[reqs[r].topic]
                all == Append(old.history, Msg(old.lastId + 1, reqs[r].body))
            IN IF hasHistory(reqs[r].key)
               THEN /\ new.history = LastN(all, maxHistorySize)
                    /\ reqs'[r].resp.ok
                    /\ reqs'[r].resp.remaining = maxHistorySize - Len(new.history)
                    /\ reqs'[r].resp.remaining \in 0..maxHistorySize
               ELSE ~reqs'[r].resp.ok

\* With maxHistorySize = 2: A, B and C published to the empty topic get the
\* ids 1, 2, 3, leave the histories [1:A], [1:A,2:B], [2:B,3:C] and the
\* answers 1, 0, 0; Subscribe(1) then replays [2:B,3:C].
C5_Scenario ==
    maxHistorySize = 2 =>
        /\ Posted(1) =>
              /\ reqs[1].resp.remaining = 1
              /\ Len(reqs) = 1 => HistoryIs(H, <<Msg(1, "A")>>)
        /\ Posted(1) /\ Posted(2) =>
              /\ reqs[2].resp.remaining = 0
              /\ Len(reqs) = 2 => HistoryIs(H, <<Msg(1, "A"), Msg(2, "B")>>)
        /\ Posted(1) /\ Posted(2) /\ Posted(3) =>
              /\ reqs[3].resp.remaining = 0
              /\ Len(reqs) = 3 => HistoryIs(H, <<Msg(2, "B"), Msg(3, "C")>>)
              /\ \A a \in Live(H) :
                    4 \in actors[a].channels /\ Len(reqs) = 4 /\ reqs[4].lastId = 1
                        => Delivered(4) = <<Msg(2, "B"), Msg(3, "C")>>

\* C5: Publish on a history topic appends, evicts oldest first down to
\* maxHistorySize and returns maxHistorySize - len(history), as in the
\* scenario A, B, C; on a topic without history it returns no number.
C5_PublishAppendsEvictsAnswers ==
    /\ []C5_Scenario
    /\ [][C5_PublishStep]_vars

\* The scenario has run to its end: A, B, C published, Subscribe(1) admitted.
C5_Witness ==
    /\ Posted(1) /\ Posted(2) /\ Posted(3)
    /\ Len(reqs) = 4 /\ reqs[4].lastId = 1
    /\ \E a \in Live(H) : 4 \in actors[a].channels
    /\ Delivered(4) = <<Msg(2, "B"), Msg(3, "C")>>

\* Only Subscribes, Unsubscribes and Publishes have reached the topic of key.
OnlyPublishes(key) ==
    \A r \in DOMAIN reqs :
        reqs[r].key = key => reqs[r].kind \in {"get", "post"} \/ reqs[r].pc = "rejected"

NumPosted(key) ==
    Cardinality({r \in DOMAIN reqs :
        reqs[r].kind = "post" /\ reqs[r].key = key /\ reqs[r].pc = "done"})

\* Ascending ids, each the one before plus one.
Consecutive(history) ==
    \A i \in 1..(Len(history) - 1) : history[i + 1].Id = history[i].Id + 1

\* After Publishes only: the n-th Publish has got id n, and the history in
\* memory and in the file is the last ids up to n, at most maxHistorySize.
C6_Histories ==
    \A key \in HistoryKeys :
        OnlyPublishes(key) =>
            /\ Len(Stored(key)) <= maxHistorySize
            /\ Consecutive(Stored(key))
            /\ \A a \in Live(key) :
                  LET t == actors[a]
                  IN /\ t.lastId = NumPosted(key)
                     /\ Len(t.history) <= maxHistorySize
                     /\ Consecutive(t.history)
                     /\ t.history # <<>> => t.history[Len(t.history)].Id = t.lastId

\* A Publish is given the id lastId + 1, which becomes lastId.
C6_PublishStep ==
    \A r \in DOMAIN reqs :
        Accepted(r, "post") =>
            LET old == actors[reqs[r].topic]
                new == actors'[reqs[r].topic]
            IN new.msg.Id = old.lastId + 1 /\ new.lastId = new.msg.Id

\* C6: over Publishes only, from the empty history and across destroy and
\* reload, every Publish gets lastId + 1 and the history stays ascending,
\* gapless and no longer than maxHistorySize.
C6_PublishSequences ==
    /\ []C6_Histories
    /\ [][C6_PublishStep]_vars

\* A Publish on a reloaded history has evicted the oldest entry.
C6_Witness ==
    /\ OnlyPublishes(H)
    /\ \A a \in DOMAIN actors : actors[a].channels = {}
    /\ \E a \in Live(H) :
          /\ FanOutDone(a)
          /\ Len(actors[a].history) = maxHistorySize
          /\ actors[a].history[1].Id = 2

\* C7: a Compact(newId, data) that is not older than the oldest entry leaves
\* {newId, data} followed by the former entries with id > newId, in their
\* order, and none with id <= newId; lastId becomes max(lastId, newId).
C7_CompactStep ==
    \A r \in DOMAIN reqs :
        Accepted(r, "put") =>
            LET old == actors[reqs[r].topic]
                new == actors'[reqs[r].topic]
                newId == reqs[r].lastId
                h == old.history
            IN (h = <<>> \/ h[1].Id <= newId) =>
                  /\ new.history # <<>>
                  /\ new.history[1] = Msg(newId, reqs[r].body)
                  /\ \E k \in 0..Len(h) :
                        /\ Tail(new.history) = SubSeq(h, k + 1, Len(h))
                        /\ \A i \in 1..k : h[i].Id <= newId
                        /\ \A i \in (k + 1)..Len(h) : h[i].Id > newId
                  /\ new.lastId = IF old.lastId > newId THEN old.lastId ELSE newId

C7_CompactKeepsNewer == [][C7_CompactStep]_vars

\* Compact(1, C) on [1:A, 2:B] has left [1:C, 2:B].
C7_Witness ==
    \E a \in Live(H) :
        /\ actors[a].cmd = "put"
        /\ actors[a].history = <<Msg(1, "C"), Msg(2, "B")>>
        /\ actors[a].lastId = 2

\* C8: a Compact older than the oldest retained entry changes nothing: not
\* the history, lastId or live set of any actor, not the registry, not the
\* file; and the request is answered as a success.
C8_StaleStep ==
    \A r \in DOMAIN reqs :
        Accepted(r, "put") =>
            LET old == actors[reqs[r].topic]
            IN (old.history # <<>> /\ reqs[r].lastId < old.history[1].Id) =>
                  /\ actors' = actors
                  /\ disk' = disk
                  /\ topics' = topics
                  /\ reqs'[r].pc = "done"

C8_StaleCompactIsNoOp == [][C8_StaleStep]_vars

\* The last request was a Compact and the actor that took it is back in its
\* select with an empty live set: the Compact was a stale one.
C8_Witness ==
    /\ Quiet
    /\ reqs # <<>>
    /\ reqs[Len(reqs)].kind = "put" /\ reqs[Len(reqs)].pc = "done"
    /\ \E a \in Live(H) :
          /\ actors[a].pc = "select"
          /\ actors[a].channels = {}
          /\ actors[a].history # <<>>
          /\ Stored(H) = actors[a].history

\* C9: after a ClearHistory the history is empty, lastId is 0 and the file
\* is gone; a Subscribe right after it replays nothing and the next Publish
\* gets id 1.
C9_ClearThenSubscribeThenPublish ==
    \A n \in DOMAIN reqs :
        Cleared(n) =>
            /\ Len(reqs) = n =>
                  /\ ~disk[pathOf(H)].exists
                  /\ \A a \in Live(H) : actors[a].history = <<>> /\ actors[a].lastId = 0
            /\ Len(reqs) = n + 1 /\ reqs[n + 1].kind = "get" =>
                  reqs[n + 1].got = <<>>
            /\ \A m \in (n + 1)..Len(reqs) :
                  /\ m = Len(reqs)
                  /\ reqs[m].kind = "post" /\ reqs[m].key = H
                  /\ \A i \in (n + 1)..(m - 1) : reqs[i].kind = "get"
                  => \A a \in Live(H) : actors[a].cmd = "post" => actors[a].msg.Id = 1

\* A, ClearHistory, Subscribe(0), then a Publish that got id 1 and reached
\* the subscriber.
C9_Witness ==
    /\ Posted(1) /\ Cleared(2) /\ Subscribed(3) /\ Posted(4)
    /\ \E a \in Live(H) : FanOutDone(a) /\ actors[a].msg.Id = 1
    /\ Delivered(3) = <<Msg(1, "D")>>

\* C10: an actor waiting in its select with an empty live set and no
\* command on its way is not in the registry; one with a subscriber is.
C10_IdleTopicNotRegistered ==
    \A a \in DOMAIN actors :
        actors[a].pc = "select" =>
            LET registered == actors[a].key \in DOMAIN topics /\ topics[actors[a].key] = a
                inFlight == \E r \in DOMAIN reqs :
                               /\ reqs[r].topic = a
                               /\ reqs[r].pc = "send" \/ reqs[r].unsub = "pending"
            IN /\ actors[a].channels # {} => registered
               /\ actors[a].channels = {} /\ ~inFlight => ~registered

\* The last id of a message list, 0 for the empty list.
LastIdOf(history) == IF history = <<>> THEN 0 ELSE history[Len(history)].Id

\* An Unsubscribe takes the handle out of the live set and leads to the idle
\* check; the idle check of an empty live set ends the actor and takes its
\* key out of the registry; an actor that has ended stays ended.
C11_TeardownStep ==
    /\ \A r \in DOMAIN reqs :
          reqs[r].unsub = "pending" /\ reqs'[r].unsub # "pending" =>
              LET a == reqs[r].topic
              IN /\ actors'[a].pc = "cleanup"
                 /\ actors'[a].channels = actors[a].channels \ {r}
    /\ \A a \in DOMAIN actors :
          /\ actors[a].pc = "cleanup" /\ actors[a].channels = {} /\ actors'[a] # actors[a]
                => actors'[a].pc = "exited" /\ actors[a].key \notin DOMAIN topics'
          /\ actors[a].pc = "exited" => actors'[a].pc = "exited"

\* getTopic for a key that is not registered constructs one actor, with an
\* empty history and lastId 0, and registers it; the actor then loads what
\* the file of its key holds (nothing for a topic without history).
C11_ConstructStep ==
    /\ Len(actors') > Len(actors) =>
          LET b == Len(actors')
              key == actors'[b].key
          IN /\ b = Len(actors) + 1
             /\ key \notin DOMAIN topics
             /\ topics'[key] = b
             /\ actors'[b].pc = "start"
             /\ actors'[b].history = <<>> /\ actors'[b].lastId = 0
             /\ actors'[b].channels = {}
    /\ \A a \in DOMAIN actors :
          actors[a].pc = "start" /\ actors'[a] # actors[a] =>
              /\ actors'[a].pc = "select"
              /\ actors'[a].history =
                    IF hasHistory(actors[a].key) THEN Stored(actors[a].key) ELSE <<>>
              /\ actors'[a].lastId = LastIdOf(actors'[a].history)
    /\ \A r \in DOMAIN reqs :
          reqs[r].pc = "send" /\ reqs'[r].pc # "send" => actors[reqs[r].topic].pc = "select"

\* The registry names no actor that has ended, and an actor that has not
\* begun its loop is as constructed.
C11_Registry ==
    /\ \A key \in DOMAIN topics : actors[topics[key]].pc # "exited"
    /\ \A a \in DOMAIN actors :
          actors[a].pc = "start" => actors[a].history = <<>> /\ actors[a].lastId = 0

\* C11: when the last subscriber is unsubscribed the actor ends and leaves
\* the registry; the next getTopic for the key constructs a new actor, whose
\* history and lastId are those of the file (empty and 0 without history),
\* loaded before the actor takes its first command.
C11_FreshActorReloads ==
    /\ []C11_Registry
    /\ [][C11_TeardownStep /\ C11_ConstructStep]_vars

\* A subscriber of key has gone, the actor it left has ended, and a later
\* actor of the key is waiting for its first command.
Reborn(key, b) ==
    /\ actors[b].key = key /\ actors[b].pc = "select" /\ actors[b].cmd = ""
    /\ \E a \in 1..(b - 1) : actors[a].key = key /\ actors[a].pc = "exited"
    /\ \E r \in DOMAIN reqs : reqs[r].kind = "get" /\ reqs[r].key = key /\ reqs[r].pc = "done"

\* The history topic reborn with the history its first actor had stored.
C11_Witness ==
    \E b \in DOMAIN actors :
        /\ Reborn(H, b)
        /\ actors[b].history # <<>> /\ actors[b].history = Stored(H)
        /\ actors[b].lastId > 0

\* C12: whatever Publish, Compact and ClearHistory have made of a history
\* topic, an actor constructed anew for its key and loading the file has
\* the same history and the same lastId as the actor in memory.
C12_ReloadReproduces ==
    \A key \in HistoryKeys :
        \A a \in Live(key) :
            LET fresh == restoreHistory(NewTopic(key), TRUE)
            IN /\ fresh.history = actors[a].history
               /\ fresh.lastId = actors[a].lastId

\* The actors that hold handle r in their live set.
Holders(r) == {a \in DOMAIN actors : r \in actors[a].channels}

\* No handle is closed twice, and a handle in a live set is open.
C13_ClosedAtMostOnce ==
    \A r \in DOMAIN reqs :
        /\ reqs[r].closes <= 1
        /\ Holders(r) # {} => reqs[r].closes = 0

\* The unsubChan case is applied to a handle that is in the live set and
\* open; it takes the handle out and closes it.
C13_UnsubscribeStep ==
    \A r \in DOMAIN reqs :
        reqs'[r].closes # reqs[r].closes /\ reqs'[r].pc # "done" =>
            /\ reqs[r].unsub = "pending"
            /\ Holders(r) = {reqs[r].topic}
            /\ reqs[r].closes = 0 /\ reqs'[r].closes = 1
            /\ r \notin actors'[reqs[r].topic].channels

C14_CancelledReturns ==
    \A r \in 1..MaxFair :
        /\ (r \in DOMAIN reqs /\ reqs[r].unsub = "pending")
              ~> (r \in DOMAIN reqs /\ reqs[r].unsub = "sent" /\ reqs[r].closes = 1)
        /\ (r \in DOMAIN reqs /\ reqs[r].unsub = "pending")
              ~> (r \in DOMAIN reqs /\ reqs[r].kind = "get" /\ reqs[r].pc = "done")

\* An actor that is replaying or fanning out gets to the end of the loop.
C14_ActorGetsThrough ==
    \A a \in 1..MaxFair :
        (a \in DOMAIN actors /\ actors[a].pc \in {"replay", "fanout"})
            ~> (a \in DOMAIN actors /\ actors[a].pc = "cleanup")

\* C14: under fair scheduling a cancelled subscriber is unsubscribed, its
\* handle closed and its handler ended, and because the handler drains the
\* handle no replay or fan-out towards it blocks the actor for ever.
C14_CancelTerminates == C14_CancelledReturns /\ C14_ActorGetsThrough

\* A Publish is being fanned out to a handle whose connection has been
\* cancelled and whose Unsubscribe is still waiting for the actor.
C14_Witness ==
    \E a \in DOMAIN actors :
        /\ actors[a].pc = "fanout"
        /\ \E r \in actors[a].pending : reqs[r].pc = "drain" /\ reqs[r].unsub = "pending"

\* C15: a get handler whose Subscribe the actor has accepted sends its
\* Unsubscribe before it ends, however it ends: when the handler is gone its
\* handle is in no live set and no actor is replaying to it.
C15_EndedHandlerUnsubscribed ==
    \A r \in DOMAIN reqs :
        reqs[r].kind = "get" /\ reqs[r].pc = "done" =>
            /\ Holders(r) = {}
            /\ \A a \in DOMAIN actors : ~(actors[a].pc = "replay" /\ actors[a].sub.ch = r)

\* C16: whatever Publishes, Compacts and ClearHistories reach a topic, the
\* ids a handle receives, replay first and fan-out after, go strictly up.
C16_ReceivedIdsIncrease ==
    \A r \in DOMAIN reqs : IsAscending(Delivered(r))

\* The plain topic of the scenarios.
P == <<"msg", "a">>

\* The step is the arrival of a request that is answered 400 at once.
Rejects ==
    /\ Len(reqs') = Len(reqs) + 1
    /\ reqs'[Len(reqs')].pc = "rejected"

\* A request answered 400 leaves the registry, the actors and the files as
\* they were; a Compact or ClearHistory arriving for a key without history
\* is answered 400, and so is a Compact arriving with no Last-Event-ID that
\* strconv.Atoi can parse.
C17_RejectStep ==
    /\ Rejects => UNCHANGED <<topics, actors, disk>>
    /\ (/\ Len(reqs') > Len(reqs)
        /\ reqs'[Len(reqs')].kind \in {"put", "del"}
        /\ ~hasHistory(reqs'[Len(reqs')].key)) => Rejects
    /\ \A key \in Keys, header \in {h \in SignedHeaderValues : Atoi(h).err} :
          put(key, header, Payloads[Len(reqs) + 1]) => Rejects

\* No Compact or ClearHistory is ever on its way to, or applied by, the actor
\* of a key without history, and such a key never has a file.
C17_NoHistoryUntouched ==
    /\ \A r \in DOMAIN reqs :
          reqs[r].kind \in {"put", "del"} /\ ~hasHistory(reqs[r].key)
              => reqs[r].pc = "rejected"
    /\ \A a \in DOMAIN actors :
          ~hasHistory(actors[a].key) =>
              /\ actors[a].cmd \notin {"put", "del"}
              /\ actors[a].history = <<>>
              /\ ~disk[pathOf(actors[a].key)].exists

\* C17: a Compact for a key without history or without a parsable cursor,
\* and a ClearHistory for a key without history, are rejected before
\* getTopic: registry, actors, live sets and files stay as they are.
C17_RejectedBeforeGetTopic ==
    /\ []C17_NoHistoryUntouched
    /\ [][C17_RejectStep]_vars

\* With a subscriber on the plain topic: a Compact for the plain key and a
\* Compact with no cursor for the history key have been rejected; the plain
\* topic is as it was and no actor exists for the history key.
C17_Witness ==
    /\ \E r \in DOMAIN reqs :
          reqs[r].kind = "put" /\ reqs[r].key = P /\ reqs[r].pc = "rejected"
    /\ \E r \in DOMAIN reqs :
          reqs[r].kind = "put" /\ reqs[r].key = H /\ reqs[r].pc = "rejected"
    /\ Len(actors) = 1 /\ DOMAIN topics = {P}
    /\ actors[1].pc = "select" /\ actors[1].channels # {}

\* C18: a Subscribe that carries a resume cursor for a key without history
\* is rejected: its handler holds no topic and is in no live set.
C18_CursorWithoutHistoryRejected ==
    \A r \in DOMAIN reqs :
        reqs[r].kind = "get" /\ ~hasHistory(reqs[r].key) /\ reqs[r].lastId > 0 =>
            /\ reqs[r].pc = "rejected"
            /\ reqs[r].topic = 0
            /\ Holders(r) = {}

\* The file of topic t after a save of history that may have failed.
SavedOrNot(t, history) ==
    disk' = disk \/
    disk' = [disk EXCEPT ![t.path] = [exists |-> TRUE, content |-> jsonMarshal(history)]]

\* A Publish, whether or not its save fails: the next id, the append with
\* eviction, the answer, and the fan-out set to every live handle.
C19_PublishStep ==
    \A r \in DOMAIN reqs :
        Accepted(r, "post") =>
            LET old == actors[reqs[r].topic]
                new == actors'[reqs[r].topic]
                msg == Msg(old.lastId + 1, reqs[r].body)
            IN /\ new.lastId = old.lastId + 1
               /\ new.msg = msg
               /\ new.history = LastN(Append(old.history, msg), maxHistorySize)
               /\ reqs'[r].pc = "done"
               /\ reqs'[r].resp = [ok |-> TRUE, remaining |-> maxHistorySize - Len(new.history)]
               /\ new.channels = old.channels /\ new.pending = old.channels
               /\ new.pc = IF old.channels = {} THEN "cleanup" ELSE "fanout"
               /\ SavedOrNot(old, new.history)

\* A Compact that is not stale, whether or not its save fails: the history
\* replaced, lastId raised, and the actor on its way to the next command.
C19_CompactStep ==
    \A r \in DOMAIN reqs :
        Accepted(r, "put") =>
            LET old == actors[reqs[r].topic]
                new == actors'[reqs[r].topic]
                newId == reqs[r].lastId
                h == old.history
            IN (h = <<>> \/ h[1].Id <= newId) =>
                  /\ new.history # <<>>
                  /\ new.history[1] = Msg(newId, reqs[r].body)
                  /\ \E k \in 0..Len(h) :
                        /\ Tail(new.history) = SubSeq(h, k + 1, Len(h))
                        /\ \A i \in 1..k : h[i].Id <= newId
                        /\ \A i \in (k + 1)..Len(h) : h[i].Id > newId
                  /\ new.lastId = IF old.lastId > newId THEN old.lastId ELSE newId
                  /\ new.channels = old.channels
                  /\ new.pc = "cleanup"
                  /\ reqs'[r].pc = "done"
                  /\ SavedOrNot(old, new.history)

\* C19: a save that fails during Publish or Compact takes nothing from the
\* command: lastId, history, answer and fan-out to every live handle are as
\* with a save that succeeds, and the actor goes on to the next command.
C19_FailedSaveStillApplies ==
    /\ []C4_OncePerLiveHandle
    /\ [][C19_PublishStep /\ C19_CompactStep]_vars

\* Two Publishes whose saves both failed: the subscriber has received both,
\* the history in memory holds both, and there is no file.
C19_Witness ==
    /\ Subscribed(1) /\ Posted(2) /\ Posted(3)
    /\ Delivered(1) = <<Msg(1, "B"), Msg(2, "C")>>
    /\ ~disk[pathOf(H)].exists
    /\ \E a \in Live(H) :
          /\ actors[a].pc = "select"
          /\ actors[a].history = <<Msg(1, "B"), Msg(2, "C")>>
          /\ actors[a].lastId = 2

\* The actors of key that have been constructed and have not returned.  An
\* actor that has deleted its entry does nothing more than return (lines
\* 116-117, 180-182), which is part of the same step here.
InUse(key) == {a \in DOMAIN actors : actors[a].key = key /\ actors[a].pc # "exited"}

\* A key has at most one actor that has not returned, and that actor is the
\* one the registry names.
C20_OneActorPerKey ==
    \A key \in Keys :
        /\ Cardinality(InUse(key)) <= 1
        /\ InUse(key) = IF key \in DOMAIN topics THEN {topics[key]} ELSE {}

\* An actor is constructed only for a key that has none; the entry of a key
\* is removed by the actor it names, which returns; commands are applied, and
\* the file is loaded, written and removed, by the actor the registry names.
C20_OwnerStep ==
    /\ Len(actors') <= Len(actors) + 1
    /\ Len(actors') > Len(actors) => InUse(actors'[Len(actors')].key) = {}
    /\ \A key \in DOMAIN topics :
          key \notin DOMAIN topics' =>
              /\ actors[topics[key]].pc = "cleanup"
              /\ actors'[topics[key]].pc = "exited"
    /\ \A a \in DOMAIN actors :
          actors'[a] # actors[a] =>
              /\ actors[a].key \in DOMAIN topics /\ topics[actors[a].key] = a
              /\ InUse(actors[a].key) = {a}
    /\ \A key \in Keys :
          disk'[pathOf(key)] # disk[pathOf(key)] =>
              /\ key \in DOMAIN topics
              /\ actors'[topics[key]] # actors[topics[key]]

\* C20: for every interleaving of getTopic with actors deregistering, a key
\* never has two actors that can apply commands or touch its file: first
\* references construct one actor, an actor removes only its own entry, and
\* it has returned before its replacement is constructed and loads the file.
C20_SingleOwnerOfKey ==
    /\ []C20_OneActorPerKey
    /\ [][C20_OwnerStep]_vars

\* After the first actor of the key has written the file and returned, two
\* requests have called getTopic before either sent: one second actor.
C20_Witness ==
    \E r1, r2 \in DOMAIN reqs :
        /\ r1 < r2
        /\ reqs[r1].pc = "send" /\ reqs[r2].pc = "send"
        /\ reqs[r1].topic = reqs[r2].topic
        /\ reqs[r1].key = H /\ reqs[r2].key = H
        /\ InUse(H) = {reqs[r1].topic}
        /\ \E a \in 1..(reqs[r1].topic - 1) : actors[a].key = H /\ actors[a].pc = "exited"
        /\ disk[pathOf(H)].exists

\* C21: after any Subscribes, Unsubscribes, Publishes, Compacts and
\* ClearHistories the history of a topic, in memory and in its file, is
\* strictly increasing by id and no longer than maxHistorySize.
C21_HistoryAscendingAndBounded ==
    /\ \A a \in DOMAIN actors :
          /\ IsAscending(actors[a].history)
          /\ Len(actors[a].history) <= maxHistorySize
    /\ \A key \in Keys :
          /\ IsAscending(Stored(key))
          /\ Len(Stored(key)) <= maxHistorySize

\* A Compact has put its message in front of a newer entry it kept, and the
\* history is as long as it may be.
C21_Witness ==
    \E a \in Live(H) :
        /\ actors[a].cmd = "put"
        /\ Len(actors[a].history) = maxHistorySize
        /\ Len(actors[a].history) >= 2
        /\ Stored(H) = actors[a].history

\* While an actor lives no step lowers its lastId.
C22_LastIdStep ==
    \A a \in DOMAIN actors :
        actors'[a].pc # "exited" => actors'[a].lastId >= actors[a].lastId

\* lastId is at least the id of every message in the history and of every
\* message the live subscribers of the actor have received from it.
C22_LastIdBoundsIds ==
    \A a \in DOMAIN actors :
        /\ \A i \in 1..Len(actors[a].history) : actors[a].history[i].Id <= actors[a].lastId
        /\ \A r \in actors[a].channels :
              \A i \in 1..Len(reqs[r].got) : reqs[r].got[i].Id <= actors[a].lastId

\* C22: over the life of an actor, under any Publishes, Compacts and
\* ClearHistories, lastId never decreases and is at least the id of every
\* message published to or injected into the topic.
C22_LastIdMonotone ==
    /\ []C22_LastIdBoundsIds
    /\ [][C22_LastIdStep]_vars

\* The messages of key in sight: in the histories of its actors, in its
\* file, and received by the handlers of its subscribers.
MessagesOf(key) ==
    UNION {{actors[a].history[i] : i \in 1..Len(actors[a].history)} :
              a \in {b \in DOMAIN actors : actors[b].key = key}}
    \cup {Stored(key)[i] : i \in 1..Len(Stored(key))}
    \cup UNION {{Delivered(r)[i] : i \in 1..Len(reqs[r].got)} :
              r \in {q \in DOMAIN reqs : reqs[q].key = key}}

\* C23: every message that a Publish or an accepted Compact puts into a
\* history or hands to a subscriber has an id >= 1, and two different
\* messages of a topic never have the same id.
C23_IdsPositiveAndUnique ==
    \A key \in Keys :
        /\ \A m \in MessagesOf(key) : m.Id >= 1
        /\ \A m, n \in MessagesOf(key) : m.Id = n.Id => m = n

\* The message list ends with message m.
EndsWith(history, m) == history # <<>> /\ history[Len(history)] = m

\* Request n was a Publish on H when H had no subscriber, so that its actor
\* ended right after it; request n + 1 is the next and a Subscribe on H, whose
\* replay actor a has just finished.
PublishedThenSubscribed(n, a) ==
    /\ Posted(n)
    /\ \A r \in 1..(n - 1) : reqs[r].kind = "get" => reqs[r].pc \in {"done", "rejected"}
    /\ Len(reqs) = n + 1
    /\ reqs[n + 1].kind = "get" /\ reqs[n + 1].key = H
    /\ ReplayDone(a) /\ actors[a].sub.ch = n + 1

\* The Publish of a history topic leaves its message, id and data, at the
\* end of the file.
C24_PersistStep ==
    \A r \in DOMAIN reqs :
        Accepted(r, "post") /\ hasHistory(reqs[r].key) =>
            EndsWith(jsonUnmarshal(disk'[pathOf(reqs[r].key)].content),
                     actors'[reqs[r].topic].msg)

\* The Subscribe that follows finds the message in the file of the new actor
\* and, its cursor being smaller than the id, receives it.
C24_ReplayedToNext ==
    \A n \in DOMAIN reqs, a \in DOMAIN actors :
        PublishedThenSubscribed(n, a) =>
            /\ Stored(H) # <<>>
            /\ LET m == Stored(H)[Len(Stored(H))]
               IN /\ m.Data = Payloads[n]
                  /\ reqs[n + 1].lastId < m.Id =>
                        \E i \in 1..Len(reqs[n + 1].got) : Delivered(n + 1)[i] = m

C24_SavedPersistStep ==
    \A r \in DOMAIN reqs :
        Accepted(r, "post") /\ hasHistory(reqs[r].key) /\ disk' # disk =>
            EndsWith(jsonUnmarshal(disk'[pathOf(reqs[r].key)].content),
                     actors'[reqs[r].topic].msg)

\* ... and a new actor whose load has succeeded.
C24_SavedReplayedToNext ==
    \A n \in DOMAIN reqs, a \in DOMAIN actors :
        /\ PublishedThenSubscribed(n, a)
        /\ Stored(H) # <<>> /\ Stored(H)[Len(Stored(H))].Data = Payloads[n]
        /\ actors[a].history = Stored(H)
        => LET m == Stored(H)[Len(Stored(H))]
           IN reqs[n + 1].lastId < m.Id =>
                 \E i \in 1..Len(reqs[n + 1].got) : Delivered(n + 1)[i] = m

C25_LastIdIsLastEntry ==
    \A a \in DOMAIN actors :
        actors[a].hasHistory /\ actors[a].pc = "select" =>
            actors[a].lastId = LastIdOf(actors[a].history)

\* The file of a history topic holds the history of its actor whenever the
\* actor waits for a command or has just finished one.
C26_FileIsHistory ==
    \A a \in DOMAIN actors :
        actors[a].hasHistory /\ actors[a].pc \in {"select", "cleanup"} =>
            Stored(actors[a].key) = actors[a].history

\* The actor returns from run leaving the file equal to its history.
C26_ExitStep ==
    \A a \in DOMAIN actors :
        actors[a].hasHistory /\ actors[a].pc # "exited" /\ actors'[a].pc = "exited" =>
            /\ a \notin {topics'[k] : k \in DOMAIN topics'}
            /\ jsonUnmarshal(disk'[actors[a].path].content) = actors[a].history

\* What each command does to the file and to the history.
C26_CommandStep ==
    \A r \in DOMAIN reqs :
        LET old == actors[reqs[r].topic]
            new == actors'[reqs[r].topic]
            saved == [exists |-> TRUE, content |-> jsonMarshal(new.history)]
            stale == old.history # <<>> /\ reqs[r].lastId < old.history[1].Id
            same == disk' = disk /\ new.history = old.history
        IN /\ Accepted(r, "post") /\ old.hasHistory =>
                disk' = [disk EXCEPT ![old.path] = saved] /\ new.history # old.history
           /\ Accepted(r, "put") /\ ~stale =>
                disk' = [disk EXCEPT ![old.path] = saved]
           /\ Accepted(r, "put") /\ stale => same
           /\ Accepted(r, "del") =>
                disk' = [disk EXCEPT ![old.path] = NoFile] /\ new.history = <<>>
           /\ Accepted(r, "get") => same
           /\ reqs[r].unsub = "pending" /\ reqs'[r].unsub # "pending" => same

\* C26: with store operations that succeed the persisted list of a history
\* topic (none when the file is absent) equals the history of its actor
\* whenever the actor waits for its next command and when it has
\* deregistered: Publish and an effective Compact save the new history,
\* ClearHistory deletes the file, Subscribe, Unsubscribe and a stale Compact
\* change neither.
C26_FileFollowsHistory ==
    /\ []C26_FileIsHistory
    /\ [][C26_ExitStep /\ C26_CommandStep]_vars

\* With a subscriber streaming, a Publish and then a Compact of its message
\* were saved, and the actor is waiting for its next command.
C26_Witness ==
    \E a \in Live(H) :
        /\ Posted(2)
        /\ 3 \in DOMAIN reqs /\ reqs[3].kind = "put" /\ reqs[3].pc = "done"
        /\ actors[a].channels = {1}
        /\ actors[a].pc = "select"
        /\ actors[a].history = <<Msg(1, "C")>>
        /\ disk[pathOf(H)] = [exists |-> TRUE, content |-> jsonMarshal(actors[a].history)]

\* The step in which the actor takes a Compact or a ClearHistory: the live
\* set is as before, no fan-out is begun, and no handle gets a message or is
\* closed.
C27_AcceptStep ==
    \A r \in DOMAIN reqs :
        Accepted(r, "put") \/ Accepted(r, "del") =>
            LET old == actors[reqs[r].topic]
                new == actors'[reqs[r].topic]
            IN /\ new.channels = old.channels
               /\ new.pc \in {"select", "cleanup"}
               /\ new.pending = {}
               /\ \A q \in DOMAIN reqs :
                     reqs'[q].got = reqs[q].got /\ reqs'[q].closes = reqs[q].closes

\* The step that ends the iteration of a Compact or a ClearHistory: handles
\* in the live set stay in it, open, and receive nothing.
C27_EndStep ==
    \A a \in DOMAIN actors :
        /\ actors[a].pc = "cleanup" /\ actors[a].cmd \in {"put", "del"}
        /\ actors'[a] # actors[a]
        => /\ actors'[a].channels = actors[a].channels \/ actors[a].channels = {}
           /\ actors[a].channels # {} => actors'[a].pc = "select"
           /\ \A q \in DOMAIN reqs :
                 reqs'[q].got = reqs[q].got /\ reqs'[q].closes = reqs[q].closes

\* Whatever a handle received by fan-out was the body of a Publish.
C27_LiveFromPublish ==
    \A q \in DOMAIN reqs : \A i \in 1..Len(reqs[q].got) :
        reqs[q].got[i].live =>
            \E n \in DOMAIN reqs :
                reqs[n].kind = "post" /\ Payloads[n] = reqs[q].got[i].Data

\* C27: Compact and ClearHistory leave the live set as it was and push no
\* message to any handle: no live subscriber receives a Compact's message
\* by fan-out, and neither command removes or closes a handle.
C27_CompactAndClearSpareSubscribers ==
    /\ []C27_LiveFromPublish
    /\ [][C27_AcceptStep /\ C27_EndStep]_vars

\* With a subscriber streaming, a Compact and then a ClearHistory were
\* applied; the subscriber is still in the live set, its handle open, and
\* has received nothing.
C27_Witness ==
    \E a \in Live(H) :
        /\ 3 \in DOMAIN reqs
        /\ reqs[1].kind = "get" /\ reqs[1].pc = "stream"
        /\ reqs[2].kind = "put" /\ reqs[2].pc = "done"
        /\ Cleared(3)
        /\ actors[a].pc = "select" /\ actors[a].channels = {1}
        /\ reqs[1].got = <<>> /\ reqs[1].closes = 0
====
